---- MODULE Spec2Model ----
(***************************************************************************)
(* Model of src/debug_onset_detection.py: read_wav, calculate_energy_      *)
(* envelope, detect_onsets and the sweep / peak report of main.            *)
(*                                                                         *)
(* Representation of the program's floats (all exact integers here):       *)
(*   - a time in seconds is held in microseconds (seconds * 1000000);      *)
(*   - a sample amplitude is held in units of 1/32768 (amplitude * 32768); *)
(*   - an energy is held in the same unit as the amplitudes it came from;  *)
(*   - a threshold factor is held in percent (factor * 100), and the       *)
(*     threshold max_energy * threshold_factor in 1/100 of an energy unit. *)
(* An envelope point is the pair <<time, energy>> of the source's tuple.   *)
(***************************************************************************)
EXTENDS Integers, Sequences, FiniteSets, TLC

VARIABLES
    pc,               \* position in the program
    err,              \* the exception raised, NoError when none
    sampwidth,        \* wav.getsampwidth()
    nchannels,        \* channels of the container (readframes returns all of them)
    frames,           \* wav.readframes(num_frames): a sequence of bytes
    num_frames,       \* wav.getnframes()
    sample_rate,      \* wav.getframerate()
    samples,          \* the decoded sample sequence
    window_ms,        \* calculate_energy_envelope's window_ms
    window_samples,   \* its window size in samples
    i,                \* its loop variable (0-based start index of the window)
    envelope,         \* the envelope: a sequence of <<time, energy>>
    threshold_factor, \* detect_onsets' threshold_factor, in percent
    min_distance_ms,  \* detect_onsets' min_distance_ms
    max_energy,       \* max(e[1] for e in envelope)
    threshold,        \* max_energy * threshold_factor
    last_onset_time,  \* detect_onsets' last_onset_time
    min_distance_s,   \* min_distance_ms / 1000.0
    n,                \* 1-based position of detect_onsets' for loop
    onsets,           \* detect_onsets' output list
    thresh_idx,       \* 1-based position of main's loop over thresh_factor
    report,           \* what main printed per factor: <<factor, onsets>>
    top_n,            \* the size of the peak report (the slice [:20])
    sorted_env        \* main's sorted_env

vars == <<pc, err, sampwidth, nchannels, frames, num_frames, sample_rate, samples,
          window_ms, window_samples, i, envelope, threshold_factor,
          min_distance_ms, max_energy, threshold, last_onset_time,
          min_distance_s, n, onsets, thresh_idx, report, top_n, sorted_env>>

readVars == <<sampwidth, nchannels, frames, num_frames, sample_rate, samples>>
envVars == <<window_ms, window_samples, i>>
detectVars == <<threshold_factor, min_distance_ms, max_energy, threshold,
                last_onset_time, min_distance_s, n, onsets>>
mainVars == <<thresh_idx, report, top_n, sorted_env>>

----------------------------------------------------------------------------
(* Bounds of the model and the input sets drawn from *)

MaxLen == 3

\* envelope timestamps, in microseconds: 0 ms, 30 ms, 60 ms, 90 ms
Times == {0, 30000, 60000, 90000}

\* envelope energies
Energies == 0 .. 2

\* threshold factors in percent: 0.15, 0.50, 1.00
ThresholdFactors == {15, 50, 100}

\* minimum distances in milliseconds
MinDistances == {0, 30, 60, 1000}

SeqsUpTo(S, len) == UNION {[1 .. m -> S] : m \in 0 .. len}

Envelopes == SeqsUpTo(Times \X Energies, MaxLen)

NoError == [kind |-> "", msg |-> "", arg |-> 0]

----------------------------------------------------------------------------
(* read_wav *)

MaxFrames == 2

\* byte groups the frame buffer is assembled from, per sample width:
\* 8-bit, 16-bit (0, 32767, -32768, -1, 1), 24-bit, and 32-bit floats
\* (0.0, 1.0, -1.0, 0.5, 2.0)
BytePatterns(width) ==
    CASE width = 1 -> { <<0>>, <<255>> }
      [] width = 2 -> { <<0, 0>>, <<255, 127>>, <<0, 128>>, <<255, 255>>,
                        <<1, 0>> }
      [] width = 3 -> { <<0, 0, 0>>, <<255, 255, 127>> }
      [] width = 4 -> { <<0, 0, 0, 0>>, <<0, 0, 128, 63>>, <<0, 0, 128, 191>>,
                        <<0, 0, 0, 63>>, <<0, 0, 0, 64>> }

RECURSIVE Flatten(_)
Flatten(groups) ==
    IF groups = <<>> THEN <<>> ELSE Head(groups) \o Flatten(Tail(groups))

\* the buffers readframes returns for count frames of chans channels
FrameBuffers(width, chans, count) ==
    {Flatten(g) : g \in [1 .. count * chans -> BytePatterns(width)]}

\* every 16-bit mono buffer of one frame
AllInt16Buffers == {<<lo, hi>> : lo \in 0 .. 255, hi \in 0 .. 255}

\* struct.calcsize of '<{num_frames}h' and '<{num_frames}f'
CalcSize(count, width) == count * width

\* struct.unpack '<h': two little-endian bytes as a signed 16-bit integer
UnpackInt16(lo, hi) ==
    IF lo + 256 * hi >= 32768 THEN lo + 256 * hi - 65536 ELSE lo + 256 * hi

RECURSIVE Pow2(_)
Pow2(k) == IF k = 0 THEN 1 ELSE 2 * Pow2(k - 1)

\* struct.unpack '<f': four little-endian bytes as an IEEE-754 single, in
\* units of 1/32768 (zero and subnormals are 0; magnitudes below 2^24 only)
UnpackFloat32(b0, b1, b2, b3) ==
    LET sign == b3 \div 128
        exp  == (b3 % 128) * 2 + b2 \div 128
        mant == (b2 % 128) * 65536 + b1 * 256 + b0
        mag  == IF exp = 0 THEN 0
                ELSE IF exp <= 135 THEN (8388608 + mant) \div Pow2(135 - exp)
                ELSE (8388608 + mant) * Pow2(exp - 135)
    IN  IF sign = 1 THEN 0 - mag ELSE mag

\* line 21 with the full-scale divisor off by one: s / 32767.0
Normalize16By32767(s) == (s * 32768) \div 32767

\* line 21: s / 32768.0, in units of 1/32768
Normalize16(s) == (s * 32768) \div 32768

\* lines 20-21
Decode16(buf, count) ==
    [j \in 1 .. count |->
        Normalize16(UnpackInt16(buf[2 * j - 1], buf[2 * j]))]

\* line 24
DecodeFloat32(buf, count) ==
    [j \in 1 .. count |->
        UnpackFloat32(buf[4 * j - 3], buf[4 * j - 2], buf[4 * j - 1], buf[4 * j])]

\* line 22 written as a plain else: every width but 2 is read as float
IsFloatWidthElse(width) == width # 2

\* line 18
IsInt16Width(width) == width = 2

\* line 22
IsFloatWidth(width) == width = 4

StructError == [kind |-> "struct.error", msg |-> "unpack requires a buffer",
                arg |-> 0]

\* lines 18-21 and 28: 16-bit PCM
ReadInt16 ==
    /\ pc = "read"
    /\ IsInt16Width(sampwidth)
    /\ IF Len(frames) = CalcSize(num_frames, 2)
       THEN /\ samples' = Decode16(frames, num_frames)
            /\ pc' = "read_ret"
            /\ err' = err
       ELSE /\ err' = StructError
            /\ pc' = "read_raise"
            /\ samples' = samples
    /\ UNCHANGED <<sampwidth, nchannels, frames, num_frames, sample_rate,
                   envVars, envelope, detectVars, mainVars>>

\* lines 22-24 and 28: 32-bit float
ReadFloat32 ==
    /\ pc = "read"
    /\ ~IsInt16Width(sampwidth)
    /\ IsFloatWidth(sampwidth)
    /\ IF Len(frames) = CalcSize(num_frames, 4)
       THEN /\ samples' = DecodeFloat32(frames, num_frames)
            /\ pc' = "read_ret"
            /\ err' = err
       ELSE /\ err' = StructError
            /\ pc' = "read_raise"
            /\ samples' = samples
    /\ UNCHANGED <<sampwidth, nchannels, frames, num_frames, sample_rate,
                   envVars, envelope, detectVars, mainVars>>

\* lines 25-26
ReadUnsupported ==
    /\ pc = "read"
    /\ ~IsInt16Width(sampwidth)
    /\ ~IsFloatWidth(sampwidth)
    /\ err' = [kind |-> "ValueError", msg |-> "Unsupported sample width: ",
               arg |-> sampwidth]
    /\ pc' = "read_raise"
    /\ UNCHANGED <<readVars, envVars, envelope, detectVars, mainVars>>

----------------------------------------------------------------------------
(* calculate_energy_envelope *)

MaxSamples == 4

\* sample amplitudes, in units of 1/32768
SampleValues == {0 - 4, 0, 3}

\* sample rates in Hz
SampleRates == {200, 1000}

\* window durations in milliseconds
WindowDurations == {0, 1, 2, 5, 12}

\* int(x / 1000.0): Python's int() truncates toward zero
IntDiv1000(x) == IF x >= 0 THEN x \div 1000 ELSE 0 - ((0 - x) \div 1000)

\* line 32
WindowSamples(rate, wms) == IntDiv1000(rate * wms)

\* line 35: range() accepts any step
RangeStepAny(step) == TRUE

\* line 35: range() raises ValueError when its step is zero
RangeStepValid(step) == step # 0

\* line 35: whether idx is produced by range(0, stop, step)
InRange(idx, stop, step) == IF step > 0 THEN idx < stop ELSE idx > stop

\* line 36 with the slice one sample short: samples[i:i+window_samples-1]
ChunkShort(smp, idx, w) ==
    SubSeq(smp, idx + 1, IF idx + w - 1 < Len(smp) THEN idx + w - 1 ELSE Len(smp))

\* line 36: samples[i:i+window_samples], idx being 0-based
Chunk(smp, idx, w) ==
    SubSeq(smp, idx + 1, IF idx + w < Len(smp) THEN idx + w ELSE Len(smp))

RECURSIVE SumSq(_)
\* line 39: sum(s*s for s in chunk)
SumSq(chunk) ==
    IF chunk = <<>> THEN 0 ELSE Head(chunk) * Head(chunk) + SumSq(Tail(chunk))

\* math.sqrt, rounded down to the unit
ISqrt(x) == CHOOSE r \in 0 .. x : r * r <= x /\ (r + 1) * (r + 1) > x

\* line 39: math.sqrt(sum(s*s for s in chunk) / len(chunk))
Rms(chunk) == ISqrt(SumSq(chunk) \div Len(chunk))

\* line 40: i / sample_rate, in microseconds
WindowTime(idx, rate) == (idx * 1000000) \div rate

\* lines 32-34
EnvelopeSetup ==
    /\ pc = "envelope"
    /\ window_samples' = WindowSamples(sample_rate, window_ms)
    /\ envelope' = <<>>
    /\ pc' = "range"
    /\ UNCHANGED <<err, readVars, window_ms, i, detectVars, mainVars>>

\* line 35: range(0, len(samples), 0) raises
RangeRaise ==
    /\ pc = "range"
    /\ ~RangeStepValid(window_samples)
    /\ err' = [kind |-> "ValueError", msg |-> "range() arg 3 must not be zero",
               arg |-> 0]
    /\ pc' = "env_raise"
    /\ UNCHANGED <<readVars, envVars, envelope, detectVars, mainVars>>

\* line 35: the loop starts at 0
RangeStart ==
    /\ pc = "range"
    /\ RangeStepValid(window_samples)
    /\ i' = 0
    /\ pc' = "loop"
    /\ UNCHANGED <<err, readVars, window_ms, window_samples, envelope,
                   detectVars, mainVars>>

\* lines 36-41: one iteration; an empty chunk breaks out of the loop
EnvelopeStep ==
    /\ pc = "loop"
    /\ InRange(i, Len(samples), window_samples)
    /\ IF Len(Chunk(samples, i, window_samples)) = 0
       THEN /\ pc' = "env_ret"
            /\ UNCHANGED <<i, envelope>>
       ELSE /\ envelope' = Append(envelope,
                   <<WindowTime(i, sample_rate),
                     Rms(Chunk(samples, i, window_samples))>>)
            /\ i' = i + window_samples
            /\ pc' = "loop"
    /\ UNCHANGED <<err, readVars, window_ms, window_samples, detectVars,
                   mainVars>>

\* line 43: the range is exhausted
EnvelopeReturn ==
    /\ pc = "loop"
    /\ ~InRange(i, Len(samples), window_samples)
    /\ pc' = "env_ret"
    /\ UNCHANGED <<err, readVars, envVars, envelope, detectVars, mainVars>>

----------------------------------------------------------------------------
(* detect_onsets *)

Max(S) == CHOOSE x \in S : \A y \in S : y <= x

Range(s) == {s[j] : j \in 1 .. Len(s)}

\* line 50
MaxEnergy(env) == Max({e[2] : e \in Range(env)})

\* line 51: in 1/100 of an energy unit, the factor being in percent
Threshold(maxe, factor) == maxe * factor

\* line 54: -1.0 seconds
InitialLastOnsetTime == 0 - 1000000

\* line 55: milliseconds to seconds (held in microseconds)
MinDistanceS(dist_ms) == (dist_ms * 1000000) \div 1000

\* line 58, with a strict comparison on the wrong side of the spacing test
QualifiesInclusive(time, energy, thr, last, dist_s) ==
    energy * 100 > thr /\ (time - last) >= dist_s

\* line 58, with the energy comparison the wrong way round
QualifiesInverted(time, energy, thr, last, dist_s) ==
    energy * 100 < thr /\ (time - last) > dist_s

\* line 58, with the energy comparison made inclusive
QualifiesAtThreshold(time, energy, thr, last, dist_s) ==
    energy * 100 >= thr /\ (time - last) > dist_s

\* line 58: energy > threshold and (time - last_onset_time) > min_distance_s
Qualifies(time, energy, thr, last, dist_s) ==
    energy * 100 > thr /\ (time - last) > dist_s

\* lines 57-60, from position k on, as a fold
RECURSIVE Scan(_, _, _, _, _, _)
Scan(env, k, thr, dist_s, last, acc) ==
    IF k > Len(env) THEN acc
    ELSE IF Qualifies(env[k][1], env[k][2], thr, last, dist_s)
         THEN Scan(env, k + 1, thr, dist_s, env[k][1], Append(acc, env[k]))
         ELSE Scan(env, k + 1, thr, dist_s, last, acc)

\* lines 45-62 as a function of its arguments
detect_onsets(env, factor, dist_ms) ==
    IF env = <<>> THEN <<>>
    ELSE Scan(env, 1, Threshold(MaxEnergy(env), factor), MinDistanceS(dist_ms),
              InitialLastOnsetTime, <<>>)

\* lines 47-48 left out: line 50 takes max() of an empty sequence and raises
DetectEmptyUnguarded ==
    /\ pc = "detect"
    /\ envelope = <<>>
    /\ err' = [kind |-> "ValueError",
               msg |-> "max() arg is an empty sequence", arg |-> 0]
    /\ pc' = "detect_raise"
    /\ UNCHANGED <<readVars, envVars, envelope, detectVars, mainVars>>

\* lines 47-48
DetectEmpty ==
    /\ pc = "detect"
    /\ envelope = <<>>
    /\ onsets' = <<>>
    /\ pc' = "detect_ret"
    /\ UNCHANGED <<err, readVars, envVars, envelope, threshold_factor,
                   min_distance_ms, max_energy, threshold, last_onset_time,
                   min_distance_s, n, mainVars>>

\* lines 50-55
DetectSetup ==
    /\ pc = "detect"
    /\ envelope # <<>>
    /\ max_energy' = MaxEnergy(envelope)
    /\ threshold' = Threshold(MaxEnergy(envelope), threshold_factor)
    /\ onsets' = <<>>
    /\ last_onset_time' = InitialLastOnsetTime
    /\ min_distance_s' = MinDistanceS(min_distance_ms)
    /\ n' = 1
    /\ pc' = "scan"
    /\ UNCHANGED <<err, readVars, envVars, envelope, threshold_factor,
                   min_distance_ms, mainVars>>

\* lines 57-60, an iteration whose point qualifies
ScanAccept ==
    /\ pc = "scan"
    /\ n <= Len(envelope)
    /\ Qualifies(envelope[n][1], envelope[n][2], threshold, last_onset_time,
                 min_distance_s)
    /\ onsets' = Append(onsets, envelope[n])
    /\ last_onset_time' = envelope[n][1]
    /\ n' = n + 1
    /\ UNCHANGED <<pc, err, readVars, envVars, envelope, threshold_factor,
                   min_distance_ms, max_energy, threshold, min_distance_s,
                   mainVars>>

\* lines 57-58, an iteration whose point does not qualify
ScanReject ==
    /\ pc = "scan"
    /\ n <= Len(envelope)
    /\ ~Qualifies(envelope[n][1], envelope[n][2], threshold, last_onset_time,
                  min_distance_s)
    /\ n' = n + 1
    /\ UNCHANGED <<pc, err, readVars, envVars, envelope, threshold_factor,
                   min_distance_ms, max_energy, threshold, last_onset_time,
                   min_distance_s, onsets, mainVars>>

\* line 62
DetectReturn ==
    /\ pc = "scan"
    /\ n > Len(envelope)
    /\ pc' = "detect_ret"
    /\ UNCHANGED <<err, readVars, envVars, envelope, detectVars, mainVars>>

\* a call detect_onsets(envelope, threshold_factor, min_distance_ms)
InitDetect ==
    /\ pc = "detect"
    /\ err = NoError
    /\ sampwidth = 2 /\ nchannels = 1 /\ frames = <<>> /\ num_frames = 0
    /\ sample_rate = 1000 /\ samples = <<>>
    /\ window_ms = 5 /\ window_samples = 0 /\ i = 0
    /\ envelope \in Envelopes
    /\ threshold_factor \in ThresholdFactors
    /\ min_distance_ms \in MinDistances
    /\ max_energy = 0 /\ threshold = 0 /\ last_onset_time = 0
    /\ min_distance_s = 0 /\ n = 0 /\ onsets = <<>>
    /\ thresh_idx = 0 /\ report = <<>> /\ top_n = 20 /\ sorted_env = <<>>

----------------------------------------------------------------------------
(* main: the sweep over threshold factors and the peak report *)

\* line 85: [0.05, 0.10, 0.15, 0.20, 0.25, 0.30], in percent
SweepFactors == <<5, 10, 15, 20, 25, 30>>

\* line 86: min_distance_ms=60
SweepMinDistance == 60

\* sizes of the peak report: main's slice is [:20]; the smaller sizes make
\* the slice cut an envelope of at most MaxLen points
TopNs == {1, 2, 20}

\* insertion that puts a point before the points of equal energy (the order
\* of sorted(...) ascending and then reversed)
RECURSIVE InsertBeforeTies(_, _)
InsertBeforeTies(sorted, p) ==
    IF sorted = <<>> THEN <<p>>
    ELSE IF Head(sorted)[2] > p[2]
         THEN <<Head(sorted)>> \o InsertBeforeTies(Tail(sorted), p)
         ELSE <<p>> \o sorted

\* stable insertion into a sequence sorted by energy descending: after every
\* point whose energy is greater or equal
RECURSIVE InsertDesc(_, _)
InsertDesc(sorted, p) ==
    IF sorted = <<>> THEN <<p>>
    ELSE IF Head(sorted)[2] >= p[2]
         THEN <<Head(sorted)>> \o InsertDesc(Tail(sorted), p)
         ELSE <<p>> \o sorted

\* line 96: sorted(envelope, key=lambda x: x[1], reverse=True); Python's sort
\* is stable, also with reverse=True
RECURSIVE SortedByEnergyDesc(_)
SortedByEnergyDesc(env) ==
    IF env = <<>> THEN <<>>
    ELSE InsertDesc(SortedByEnergyDesc(SubSeq(env, 1, Len(env) - 1)),
                    env[Len(env)])

\* line 96: the slice [:count]
Take(s, count) == SubSeq(s, 1, IF count < Len(s) THEN count ELSE Len(s))

\* line 80: max() of an empty sequence raises ValueError
MainMaxEnergy ==
    /\ pc = "main"
    /\ IF envelope = <<>>
       THEN /\ err' = [kind |-> "ValueError",
                       msg |-> "max() arg is an empty sequence", arg |-> 0]
            /\ pc' = "main_raise"
            /\ UNCHANGED <<max_energy, thresh_idx>>
       ELSE /\ max_energy' = MaxEnergy(envelope)
            /\ thresh_idx' = 1
            /\ pc' = "sweep"
            /\ err' = err
    /\ UNCHANGED <<readVars, envVars, envelope, threshold_factor,
                   min_distance_ms, threshold, last_onset_time, min_distance_s,
                   n, onsets, report, top_n, sorted_env>>

\* lines 85-92: one iteration of the loop over thresh_factor
SweepStep ==
    /\ pc = "sweep"
    /\ thresh_idx <= Len(SweepFactors)
    /\ onsets' = detect_onsets(envelope, SweepFactors[thresh_idx],
                               SweepMinDistance)
    /\ report' = Append(report,
                        <<SweepFactors[thresh_idx],
                          detect_onsets(envelope, SweepFactors[thresh_idx],
                                        SweepMinDistance)>>)
    /\ thresh_idx' = thresh_idx + 1
    /\ UNCHANGED <<pc, err, readVars, envVars, envelope, threshold_factor,
                   min_distance_ms, max_energy, threshold, last_onset_time,
                   min_distance_s, n, top_n, sorted_env>>

\* lines 94-98: the peak report
PeakReport ==
    /\ pc = "sweep"
    /\ thresh_idx > Len(SweepFactors)
    /\ sorted_env' = Take(SortedByEnergyDesc(envelope), top_n)
    /\ pc' = "main_ret"
    /\ UNCHANGED <<err, readVars, envVars, envelope, detectVars, thresh_idx,
                   report, top_n>>

\* line 78: window_ms=5.0
MainWindowMs == 5

\* sample rates of the containers main is run on, in Hz
MainSampleRates == {100, 200, 1000}

\* line 78: calculate_energy_envelope has returned and main binds envelope
MainEnvelopeBuilt ==
    /\ pc = "env_ret"
    /\ pc' = "main"
    /\ UNCHANGED <<err, readVars, envVars, envelope, detectVars, mainVars>>

----------------------------------------------------------------------------
(* Specifications: one per function called on inputs drawn from the sets *)
(* above, and Spec for a call of any of them                             *)

\* a call read_wav(path) on a container of the given width, channels, frame
\* count and rate
InitRead ==
    /\ pc = "read"
    /\ err = NoError
    /\ sample_rate \in SampleRates
    /\ \/ /\ sampwidth \in 1 .. 4
          /\ nchannels \in 1 .. 2
          /\ num_frames \in 0 .. MaxFrames
          /\ frames \in FrameBuffers(sampwidth, nchannels, num_frames)
       \/ /\ sampwidth = 2
          /\ nchannels = 1
          /\ num_frames = 1
          /\ frames \in AllInt16Buffers
    /\ samples = <<>>
    /\ window_ms = 5 /\ window_samples = 0 /\ i = 0
    /\ envelope = <<>>
    /\ threshold_factor = 15 /\ min_distance_ms = 60
    /\ max_energy = 0 /\ threshold = 0 /\ last_onset_time = 0
    /\ min_distance_s = 0 /\ n = 0 /\ onsets = <<>>
    /\ thresh_idx = 0 /\ report = <<>> /\ top_n = 20 /\ sorted_env = <<>>

NextRead ==
    \/ ReadInt16
    \/ ReadFloat32
    \/ ReadUnsupported

SpecRead == InitRead /\ [][NextRead]_vars

\* a call calculate_energy_envelope(samples, sample_rate, window_ms)
InitEnvelope ==
    /\ pc = "envelope"
    /\ err = NoError
    /\ sampwidth = 2 /\ nchannels = 1 /\ frames = <<>> /\ num_frames = 0
    /\ sample_rate \in SampleRates
    /\ samples \in SeqsUpTo(SampleValues, MaxSamples)
    /\ window_ms \in WindowDurations
    /\ window_samples = 0 /\ i = 0
    /\ envelope = <<>>
    /\ threshold_factor = 15 /\ min_distance_ms = 60
    /\ max_energy = 0 /\ threshold = 0 /\ last_onset_time = 0
    /\ min_distance_s = 0 /\ n = 0 /\ onsets = <<>>
    /\ thresh_idx = 0 /\ report = <<>> /\ top_n = 20 /\ sorted_env = <<>>

NextEnvelope ==
    \/ EnvelopeSetup
    \/ RangeRaise
    \/ RangeStart
    \/ EnvelopeStep
    \/ EnvelopeReturn

SpecEnvelope == InitEnvelope /\ [][NextEnvelope]_vars

NextDetect ==
    \/ DetectEmpty
    \/ DetectSetup
    \/ ScanAccept
    \/ ScanReject
    \/ DetectReturn

SpecDetect == InitDetect /\ [][NextDetect]_vars

\* threshold factors in percent outside (0, 1]: -0.50, 0, 1.50
OutOfRangeFactors == {0 - 50, 0, 150}

\* a call detect_onsets(envelope, threshold_factor, min_distance_ms) with any
\* number as threshold_factor: the signature (line 45) accepts it
InitDetectAnyFactor ==
    /\ pc = "detect"
    /\ err = NoError
    /\ sampwidth = 2 /\ nchannels = 1 /\ frames = <<>> /\ num_frames = 0
    /\ sample_rate = 1000 /\ samples = <<>>
    /\ window_ms = 5 /\ window_samples = 0 /\ i = 0
    /\ envelope \in Envelopes
    /\ threshold_factor \in ThresholdFactors \cup OutOfRangeFactors
    /\ min_distance_ms \in MinDistances
    /\ max_energy = 0 /\ threshold = 0 /\ last_onset_time = 0
    /\ min_distance_s = 0 /\ n = 0 /\ onsets = <<>>
    /\ thresh_idx = 0 /\ report = <<>> /\ top_n = 20 /\ sorted_env = <<>>

SpecDetectAnyFactor == InitDetectAnyFactor /\ [][NextDetect]_vars

\* main from line 80 on, with the envelope already built
InitMain ==
    /\ pc = "main"
    /\ err = NoError
    /\ sampwidth = 2 /\ nchannels = 1 /\ frames = <<>> /\ num_frames = 0
    /\ sample_rate = 1000 /\ samples = <<>>
    /\ window_ms = 5 /\ window_samples = 0 /\ i = 0
    /\ envelope \in Envelopes
    /\ threshold_factor = 15 /\ min_distance_ms = 60
    /\ max_energy = 0 /\ threshold = 0 /\ last_onset_time = 0
    /\ min_distance_s = 0 /\ n = 0 /\ onsets = <<>>
    /\ thresh_idx = 0 /\ report = <<>>
    /\ top_n \in TopNs
    /\ sorted_env = <<>>

NextMain ==
    \/ MainMaxEnergy
    \/ SweepStep
    \/ PeakReport

SpecMain == InitMain /\ [][NextMain]_vars

\* main from line 78 on: the envelope is built from the samples read, then
\* swept and reported
InitMainRun ==
    /\ pc = "envelope"
    /\ err = NoError
    /\ sampwidth = 2 /\ nchannels = 1 /\ frames = <<>> /\ num_frames = 0
    /\ sample_rate \in MainSampleRates
    /\ samples \in SeqsUpTo(SampleValues, MaxSamples)
    /\ window_ms = MainWindowMs
    /\ window_samples = 0 /\ i = 0
    /\ envelope = <<>>
    /\ threshold_factor = 15 /\ min_distance_ms = 60
    /\ max_energy = 0 /\ threshold = 0 /\ last_onset_time = 0
    /\ min_distance_s = 0 /\ n = 0 /\ onsets = <<>>
    /\ thresh_idx = 0 /\ report = <<>>
    /\ top_n \in TopNs
    /\ sorted_env = <<>>

NextMainRun ==
    \/ EnvelopeSetup
    \/ RangeRaise
    \/ RangeStart
    \/ EnvelopeStep
    \/ EnvelopeReturn
    \/ MainEnvelopeBuilt
    \/ MainMaxEnergy
    \/ SweepStep
    \/ PeakReport

SpecMainRun == InitMainRun /\ [][NextMainRun]_vars

Init ==
    \/ InitRead
    \/ InitEnvelope
    \/ InitDetect
    \/ InitMain

Next ==
    \/ NextRead
    \/ NextEnvelope
    \/ NextDetect
    \/ NextMain

Spec == Init /\ [][Next]_vars

----------------------------------------------------------------------------
(* Properties of detect_onsets, checked under SpecDetect *)

\* timestamps never decrease along the envelope
Ascending(env) == \A j \in 1 .. Len(env) - 1 : env[j][1] <= env[j + 1][1]

\* the largest energy of a non-empty envelope
PeakEnergy(env) ==
    CHOOSE m \in {env[j][2] : j \in 1 .. Len(env)} :
        \A j \in 1 .. Len(env) : env[j][2] <= m

\* e is strictly above factor (percent) times the peak energy of env
AboveThreshold(e, env, factor) == e * 100 > PeakEnergy(env) * factor

\* C1: refractory invariant. In the list detect_onsets returns for an
\* envelope with ascending timestamps, any two consecutive events are more
\* than minDistanceMs/1000 seconds apart, strictly.
C1_Refractory ==
    (pc = "detect_ret" /\ Ascending(envelope)) =>
        \A j \in 1 .. Len(onsets) - 1 :
            onsets[j + 1][1] - onsets[j][1] > min_distance_ms * 1000

\* C1 witness: a returned list of at least two events under a positive
\* minimum distance, with a point above the threshold left out for spacing
C1_Witness ==
    /\ pc = "detect_ret"
    /\ Ascending(envelope)
    /\ min_distance_ms > 0
    /\ Len(onsets) >= 2
    /\ \E j \in 1 .. Len(envelope) :
          /\ AboveThreshold(envelope[j][2], envelope, threshold_factor)
          /\ envelope[j] \notin Range(onsets)

\* C2: threshold monotonicity. For an envelope with ascending timestamps and
\* a fixed minDistanceMs, a lower threshold factor never yields fewer onsets
\* than a higher one: the returned list is at most as long as the list at any
\* lower factor and at least as long as the list at any higher factor.
C2_ThresholdMonotone ==
    (pc = "detect_ret" /\ Ascending(envelope)) =>
        \A f \in ThresholdFactors :
            /\ f < threshold_factor =>
                  Len(detect_onsets(envelope, f, min_distance_ms)) >= Len(onsets)
            /\ f > threshold_factor =>
                  Len(detect_onsets(envelope, f, min_distance_ms)) <= Len(onsets)

\* C2 witness: the greedy scan picks different points at two factors, and
\* the higher factor yields strictly fewer onsets
C2_Witness ==
    /\ pc = "detect_ret"
    /\ Ascending(envelope)
    /\ \E f \in ThresholdFactors :
          /\ f > threshold_factor
          /\ Len(detect_onsets(envelope, f, min_distance_ms)) < Len(onsets)
          /\ \E p \in Range(detect_onsets(envelope, f, min_distance_ms)) :
                p \notin Range(onsets)

\* C3: acceptance rule. An iteration of the scan appends the point (t, e) and
\* sets lastOnsetTime to t if and only if e > maxEnergy * thresholdFactor and
\* t - lastOnsetTime > minDistanceS, both strict; otherwise it leaves the
\* output and lastOnsetTime unchanged.
C3_AcceptanceRule ==
    [][(pc = "scan" /\ n <= Len(envelope)) =>
          IF /\ AboveThreshold(envelope[n][2], envelope, threshold_factor)
             /\ envelope[n][1] - last_onset_time > min_distance_ms * 1000
          THEN /\ onsets' = Append(onsets, envelope[n])
               /\ last_onset_time' = envelope[n][1]
          ELSE /\ onsets' = onsets
               /\ last_onset_time' = last_onset_time]_vars

\* C3 witness: two equal spikes 30 ms apart with minDistanceMs = 60; only the
\* first is reported
C3_Witness ==
    /\ pc = "detect_ret"
    /\ envelope = << <<0, 2>>, <<30000, 2>> >>
    /\ min_distance_ms = 60
    /\ onsets = << <<0, 2>> >>

\* C4: first-onset guarantee. For every non-empty envelope and every
\* minDistanceMs >= 0, the first point in scan order whose energy is strictly
\* above the threshold is among the returned onsets.
C4_FirstOnsetEmitted ==
    pc = "detect_ret" =>
        \A j \in 1 .. Len(envelope) :
            ( /\ AboveThreshold(envelope[j][2], envelope, threshold_factor)
              /\ \A k \in 1 .. j - 1 :
                    ~AboveThreshold(envelope[k][2], envelope, threshold_factor) )
            => envelope[j] \in Range(onsets)

----------------------------------------------------------------------------
(* Properties of calculate_energy_envelope and read_wav *)

\* floor(sampleRate * windowMs / 1000)
WindowSize(rate, wms) == (rate * wms) \div 1000

\* C5: empty input is not an error. calculate_energy_envelope on an empty
\* sample sequence with a window of at least one sample raises nothing and
\* its envelope is empty; detect_onsets on an empty envelope raises nothing
\* and returns the empty list.
C5_EmptyInput ==
    /\ (samples = <<>> /\ WindowSize(sample_rate, window_ms) >= 1) =>
          /\ pc # "env_raise"
          /\ pc \in {"range", "loop", "env_ret"} =>
                (envelope = <<>> /\ err = NoError)
    /\ (envelope = <<>>
          /\ pc \in {"detect", "scan", "detect_ret", "detect_raise"}) =>
          /\ pc \in {"detect", "detect_ret"}
          /\ err = NoError
          /\ onsets = <<>>

\* C5 witness: the envelope of an empty sample sequence has been returned,
\* empty and with no error
C5_Witness ==
    /\ pc = "env_ret"
    /\ samples = <<>>
    /\ window_samples >= 1
    /\ envelope = <<>>
    /\ err = NoError

\* C6: a sample width other than 2 or 4 ends read_wav with the error that
\* names the width, and no sample sequence; widths 2 and 4 never raise it.
C6_UnsupportedWidth ==
    /\ (pc \in {"read_ret", "read_raise"} /\ sampwidth \notin {2, 4}) =>
          /\ pc = "read_raise"
          /\ err.kind = "ValueError"
          /\ err.msg = "Unsupported sample width: "
          /\ err.arg = sampwidth
          /\ samples = <<>>
    /\ (pc \in {"read_ret", "read_raise"} /\ sampwidth \in {2, 4}) =>
          err.msg # "Unsupported sample width: "

\* C6 witness: three bytes per sample declared, with frames present
C6_Witness ==
    /\ pc = "read_raise"
    /\ sampwidth = 3
    /\ num_frames > 0
    /\ err.arg = 3

\* C7: when the computed window size is 0, calculate_energy_envelope raises
\* before any envelope point is built, for every sample sequence: it never
\* enters the loop and never returns an envelope.
C7_ZeroWindow ==
    (pc \in {"range", "loop", "env_ret", "env_raise"}
        /\ WindowSize(sample_rate, window_ms) = 0) =>
        /\ pc \in {"range", "env_raise"}
        /\ envelope = <<>>
        /\ pc = "range" => (err = NoError /\ ENABLED RangeRaise)
        /\ pc = "env_raise" => err.kind = "ValueError"

\* C7 witness: a positive window duration whose size in samples is 0, on a
\* non-empty sample sequence, has raised
C7_Witness ==
    /\ pc = "env_raise"
    /\ samples # <<>>
    /\ window_ms > 0
    /\ envelope = <<>>

\* C8: envelope partition. For L >= 1 samples and a window of W >= 1 samples
\* the returned envelope has ceil(L/W) points; point k (from 0) is the RMS of
\* samples [k*W, min((k+1)*W, L)), a non-empty window, at time k*W/sampleRate,
\* and the timestamps increase strictly by W/sampleRate.
C8_Partition ==
    (pc = "env_ret" /\ Len(samples) >= 1
        /\ WindowSize(sample_rate, window_ms) >= 1) =>
        LET L == Len(samples)
            W == WindowSize(sample_rate, window_ms)
        IN  /\ Len(envelope) = (L + W - 1) \div W
            /\ \A k \in 0 .. Len(envelope) - 1 :
                  LET lo == k * W
                      hi == IF (k + 1) * W < L THEN (k + 1) * W ELSE L
                  IN  /\ lo < hi
                      /\ envelope[k + 1][1] * sample_rate = lo * 1000000
                      /\ envelope[k + 1][2] = Rms(SubSeq(samples, lo + 1, hi))
            /\ \A k \in 1 .. Len(envelope) - 1 :
                  /\ envelope[k + 1][1] > envelope[k][1]
                  /\ (envelope[k + 1][1] - envelope[k][1]) * sample_rate
                        = W * 1000000

\* C8 witness: the sample count is no multiple of the window size and the
\* shorter final window was emitted after a full one
C8_Witness ==
    /\ pc = "env_ret"
    /\ window_samples >= 2
    /\ Len(samples) % window_samples # 0
    /\ Len(envelope) >= 2
    /\ envelope[Len(envelope)][2] > 0

\* C9 as claimed: every sample decoded from 16-bit input lies in (-1.0, 1.0].
C9_Range16HalfOpen ==
    (pc = "read_ret" /\ sampwidth = 2) =>
        \A j \in 1 .. Len(samples) :
            samples[j] > 0 - 32768 /\ samples[j] <= 32768

\* C9 amended: every sample decoded from 16-bit input lies in the closed
\* range [-1.0, 1.0].
C9_Range16Closed ==
    (pc = "read_ret" /\ sampwidth = 2) =>
        \A j \in 1 .. Len(samples) :
            samples[j] >= 0 - 32768 /\ samples[j] <= 32768

\* C9 witness: the integer -32768 (bytes 00 80) decoded to exactly -1.0
C9_Witness ==
    /\ pc = "read_ret"
    /\ sampwidth = 2
    /\ frames = <<0, 128>>
    /\ samples = <<0 - 32768>>

----------------------------------------------------------------------------
(* Properties of main's peak report, checked under SpecMain *)

\* 1-based place of point m of env when the points are ordered by energy
\* descending and, among equal energies, by ascending timestamp
PeakRank(env, m) ==
    1 + Cardinality({k \in 1 .. Len(env) :
            \/ env[k][2] > env[m][2]
            \/ /\ env[k][2] = env[m][2]
               /\ \/ env[k][1] < env[m][1]
                  \/ env[k][1] = env[m][1] /\ k < m})

\* C10: peak report ordering. For an envelope with ascending timestamps the
\* peak report is the first min(N, length) points of the envelope ordered by
\* energy descending, equal energies in ascending-timestamp order, and
\* producing it leaves the envelope unchanged.
C10_PeakReportOrder ==
    [][(pc = "sweep" /\ pc' = "main_ret" /\ Ascending(envelope)) =>
          /\ envelope' = envelope
          /\ Len(sorted_env') =
                (IF top_n < Len(envelope) THEN top_n ELSE Len(envelope))
          /\ \A m \in 1 .. Len(envelope) :
                PeakRank(envelope, m) <= top_n =>
                    sorted_env'[PeakRank(envelope, m)] = envelope[m]]_vars

\* C10 witness: a report cut to N points that holds two points of equal
\* energy and different timestamps, from an envelope that also has a point
\* of another energy
C10_Witness ==
    /\ pc = "main_ret"
    /\ Ascending(envelope)
    /\ Len(envelope) > top_n
    /\ Len(sorted_env) = top_n
    /\ \E j, k \in 1 .. Len(sorted_env) :
          /\ j < k
          /\ sorted_env[j][2] = sorted_env[k][2]
          /\ sorted_env[j][1] < sorted_env[k][1]
    /\ \E j \in 1 .. Len(envelope) : envelope[j][2] # sorted_env[1][2]

----------------------------------------------------------------------------
(* Properties of the sweep as main runs it, checked under SpecMainRun *)

\* C11: the sweep completes without raising for every envelope the envelope
\* builder produces: main never raises once the envelope is built, and for
\* the empty envelope it reports an empty onset list for every factor.
C11_SweepCompletes ==
    /\ pc # "main_raise"
    /\ (pc = "main_ret" /\ envelope = <<>>) =>
          /\ Len(report) = Len(SweepFactors)
          /\ \A j \in 1 .. Len(report) : report[j][2] = <<>>

----------------------------------------------------------------------------
(* Properties of detect_onsets on any threshold factor, checked under *)
(* SpecDetectAnyFactor                                                 *)

\* C12: configuration precondition. With a thresholdFactor outside (0, 1]
\* detect_onsets reports an error instead of computing and returning an
\* onset list: it never gets past its entry except by raising.
C12_FactorOutOfRangeRaises ==
    (threshold_factor <= 0 \/ threshold_factor > 100) =>
        pc \in {"detect", "detect_raise"}

\* C13: silence yields no events. For a non-empty envelope whose every
\* energy is 0, detect_onsets returns the empty list for every
\* thresholdFactor > 0 and every minDistanceMs.
C13_SilenceNoEvents ==
    ( /\ pc = "detect_ret"
      /\ envelope # <<>>
      /\ \A j \in 1 .. Len(envelope) : envelope[j][2] = 0
      /\ threshold_factor > 0 ) =>
        onsets = <<>>

\* C13 witness: a silent envelope of several points, far enough apart to
\* pass the spacing test, was scanned and nothing was returned
C13_Witness ==
    /\ pc = "detect_ret"
    /\ Len(envelope) >= 2
    /\ \A j \in 1 .. Len(envelope) : envelope[j][2] = 0
    /\ envelope[2][1] - envelope[1][1] > min_distance_ms * 1000
    /\ threshold_factor > 0
    /\ max_energy = 0
    /\ threshold = 0
    /\ onsets = <<>>

====
